---- MODULE Spec2Model ----
(***************************************************************************)
(* A model of aden_tools/tools/json_tool/json_tool.py: the bounded JSON    *)
(* parser, the dot/bracket path resolver, the deep merger, the structural  *)
(* differ, the formatter and the five tool handlers built on them.         *)
(*                                                                         *)
(* Text is a sequence of one-character strings.  A Python object is a      *)
(* record [ty, v] whose ty is the name Python's type() gives it:           *)
(*   NoneType, bool, int, float, str, list, dict.                          *)
(* A float carries the characters of its repr (so 1.50 and 1.5 are one     *)
(* float, and NaN is a float); a dict carries its items in insertion       *)
(* order as a sequence of <<key, value>> pairs with distinct keys.         *)
(***************************************************************************)
EXTENDS Integers, Sequences, FiniteSets, TLC

VARIABLES pc, call, result, heap

vars == <<pc, call, result, heap>>

(***************************************************************************)
(* Characters and text                                                     *)
(***************************************************************************)
QUOTE == "\""
BSLASH == "\\"
NL == "\n"
SP == " "

Digits == <<"0", "1", "2", "3", "4", "5", "6", "7", "8", "9">>

IsDigit(c) == \E d \in 1..10 : Digits[d] = c

DigitVal(c) == (CHOOSE d \in 1..10 : Digits[d] = c) - 1

\* Code-point order of the characters the model's texts are written in.
Alphabet ==
    <<NL, SP, QUOTE, "$", "*", ",", "-", ".", "/",
      "0", "1", "2", "3", "4", "5", "6", "7", "8", "9", ":",
      "A", "B", "N", "[", BSLASH, "]",
      "a", "b", "c", "d", "e", "f", "l", "m", "n", "o", "r", "s", "t", "u", "x",
      "{", "}">>

Ord(c) == CHOOSE k \in 1..Len(Alphabet) : Alphabet[k] = c

\* s < t in Python's string order (lexicographic by code point).
RECURSIVE StrLess(_, _)
StrLess(s, t) ==
    IF t = <<>> THEN FALSE
    ELSE IF s = <<>> THEN TRUE
    ELSE IF Head(s) = Head(t) THEN StrLess(Tail(s), Tail(t))
    ELSE Ord(Head(s)) < Ord(Head(t))

RECURSIVE CatRange(_, _, _)
CatRange(parts, lo, hi) ==
    IF lo > hi THEN <<>>
    ELSE IF lo = hi THEN parts[lo]
    ELSE LET mid == (lo + hi) \div 2
         IN  CatRange(parts, lo, mid) \o CatRange(parts, mid + 1, hi)

\* The concatenation of a sequence of texts
Cat(parts) == CatRange(parts, 1, Len(parts))

Rep(c, n) == [k \in 1..n |-> c]

\* sep.join(parts)
Join(parts, sep) ==
    Cat([k \in 1..(2 * Len(parts) - 1) |->
            IF k % 2 = 1 THEN parts[(k + 1) \div 2] ELSE sep])

IsWs(c) == c \in {SP, NL}

\* str.strip()
Strip(s) ==
    LET keep == {k \in 1..Len(s) : ~IsWs(s[k])}
    IN  IF keep = {} THEN <<>>
        ELSE SubSeq(s, CHOOSE k \in keep : \A j \in keep : k <= j,
                       CHOOSE k \in keep : \A j \in keep : k >= j)

\* str(n) for an int n
RECURSIVE NatToText(_)
NatToText(n) ==
    IF n < 10 THEN <<Digits[n + 1]>>
    ELSE NatToText(n \div 10) \o <<Digits[(n % 10) + 1]>>

IntToText(n) == IF n < 0 THEN <<"-">> \o NatToText(-n) ELSE NatToText(n)

\* int(s) for a text of decimal digits
RECURSIVE TextToNat(_)
TextToNat(s) ==
    IF s = <<>> THEN 0
    ELSE 10 * TextToNat(SubSeq(s, 1, Len(s) - 1)) + DigitVal(s[Len(s)])

(***************************************************************************)
(* Python objects                                                          *)
(***************************************************************************)
PyNone == [ty |-> "NoneType", v |-> 0]
PyBool(b) == [ty |-> "bool", v |-> b]
PyInt(n) == [ty |-> "int", v |-> n]
PyFloat(r) == [ty |-> "float", v |-> r]
PyStr(s) == [ty |-> "str", v |-> s]
PyList(es) == [ty |-> "list", v |-> es]
PyDict(items) == [ty |-> "dict", v |-> items]

NaNRepr == <<"N", "a", "N">>
PyNaN == PyFloat(NaNRepr)

IsDict(x) == x.ty = "dict"
IsList(x) == x.ty = "list"

\* type(x).__name__
TypeName(x) == x.ty

\* dict operations on the item sequence
Keys(d) == {d.v[k][1] : k \in 1..Len(d.v)}
KeyList(d) == [k \in 1..Len(d.v) |-> d.v[k][1]]
HasKey(d, key) == \E k \in 1..Len(d.v) : d.v[k][1] = key
Get(d, key) == d.v[CHOOSE k \in 1..Len(d.v) : d.v[k][1] = key][2]

\* d[key] = val: replaces in place, or appends a new item
DictSet(d, key, val) ==
    IF HasKey(d, key)
    THEN PyDict([k \in 1..Len(d.v) |->
                    IF d.v[k][1] = key THEN <<key, val>> ELSE d.v[k]])
    ELSE PyDict(Append(d.v, <<key, val>>))

\* sorted(keys) for a set of str keys
RECURSIVE SortedKeys(_)
SortedKeys(S) ==
    IF S = {} THEN <<>>
    ELSE LET m == CHOOSE x \in S : \A y \in S \ {x} : StrLess(x, y)
         IN  <<m>> \o SortedKeys(S \ {m})

\* a != b for two objects of the same scalar type: a float NaN is unequal
\* to everything, itself included.
ScalarNe(a, b) ==
    IF a.ty = "float" /\ (a.v = NaNRepr \/ b.v = NaNRepr) THEN TRUE
    ELSE a.v # b.v

(***************************************************************************)
(* Bounded parser                                                          *)
(***************************************************************************)
MAX_DEPTH == 50

\* The size limit is 1_000_000 characters in the source.  Texts are explicit
\* character sequences here, so the model runs the same comparison,
\* len(raw) > MAX_INPUT_SIZE, against a limit scaled down to MaxInputScale.
MaxInputScale == 320

MAX_INPUT_SIZE == MaxInputScale

\* NestStep with the bound tested one level early (>= for >)
NestStepEarly(st, ch) ==
    IF st.raised THEN st
    ELSE IF st.escape THEN [st EXCEPT !.escape = FALSE]
    ELSE IF ch = BSLASH /\ st.in_string THEN [st EXCEPT !.escape = TRUE]
    ELSE IF ch = QUOTE THEN [st EXCEPT !.in_string = ~st.in_string]
    ELSE IF st.in_string THEN st
    ELSE IF ch \in {"{", "["}
        THEN [st EXCEPT !.depth = st.depth + 1,
                        !.raised = st.depth + 1 >= MAX_DEPTH]
    ELSE IF ch \in {"}", "]"} THEN [st EXCEPT !.depth = st.depth - 1]
    ELSE st

\* One iteration of the loop of _DepthCheckDecoder._check_nesting over the
\* locals depth, in_string, escape; raised records that ValueError has left
\* the loop.
NestStep(st, ch) ==
    IF st.raised THEN st
    ELSE IF st.escape THEN [st EXCEPT !.escape = FALSE]
    ELSE IF ch = BSLASH /\ st.in_string THEN [st EXCEPT !.escape = TRUE]
    ELSE IF ch = QUOTE THEN [st EXCEPT !.in_string = ~st.in_string]
    ELSE IF st.in_string THEN st
    ELSE IF ch \in {"{", "["}
        THEN [st EXCEPT !.depth = st.depth + 1,
                        !.raised = st.depth + 1 > MAX_DEPTH]
    ELSE IF ch \in {"}", "]"} THEN [st EXCEPT !.depth = st.depth - 1]
    ELSE st

\* The for loop over s[lo..hi], run as two half loops; a raise in the first
\* half leaves the loop.
RECURSIVE NestFold(_, _, _, _)
NestFold(st, s, lo, hi) ==
    IF lo > hi THEN st
    ELSE IF lo = hi THEN NestStep(st, s[lo])
    ELSE LET mid == (lo + hi) \div 2
             left == NestFold(st, s, lo, mid)
         IN  IF left.raised THEN left ELSE NestFold(left, s, mid + 1, hi)

NestInit == [depth |-> 0, in_string |-> FALSE, escape |-> FALSE, raised |-> FALSE]

\* TRUE when _check_nesting(s) raises ValueError
CheckNestingRaises(s) == NestFold(NestInit, s, 1, Len(s)).raised

(***************************************************************************)
(* json.JSONDecoder.decode, as far as texts over Alphabet exercise it:     *)
(* whitespace, the literals null/true/false/NaN, numbers without exponent, *)
(* strings with the escapes \" \\ \/ \n, arrays and objects.  The texts of *)
(* the model contain no other escape and no exponent.  The decoder is      *)
(* written as a tokenizer and a stack parser, each a loop over its input.  *)
(***************************************************************************)
Punct == {"{", "}", "[", "]", ",", ":"}
NumChars == {"0", "1", "2", "3", "4", "5", "6", "7", "8", "9", "-", "."}

AllDigits(s) == \A k \in 1..Len(s) : IsDigit(s[k])

\* -?(0|[1-9]\d*) on the whole of s
IsIntText(s) ==
    LET body == IF s # <<>> /\ s[1] = "-" THEN Tail(s) ELSE s
    IN  /\ body # <<>>
        /\ AllDigits(body)
        /\ (Len(body) > 1 => body[1] # "0")

DotPos(s) == CHOOSE k \in 1..Len(s) : s[k] = "."

\* -?(0|[1-9]\d*)\.\d+ on the whole of s
IsFloatText(s) ==
    /\ \E k \in 1..Len(s) : s[k] = "."
    /\ IsIntText(SubSeq(s, 1, DotPos(s) - 1))
    /\ DotPos(s) < Len(s)
    /\ AllDigits(SubSeq(s, DotPos(s) + 1, Len(s)))

RECURSIVE StripZeros(_)
StripZeros(s) ==
    IF Len(s) > 1 /\ s[Len(s)] = "0" THEN StripZeros(SubSeq(s, 1, Len(s) - 1))
    ELSE s

\* float(s) for a text that IsFloatText: the float whose repr is the integer
\* part without redundant sign handling, a point and the fraction without
\* trailing zeros (the texts of the model stay within 15 significant digits).
FloatOfText(s) ==
    PyFloat(SubSeq(s, 1, DotPos(s)) \o StripZeros(SubSeq(s, DotPos(s) + 1, Len(s))))

\* int(s) for a text that IsIntText
IntOfText(s) ==
    IF s[1] = "-" THEN PyInt(0 - TextToNat(Tail(s))) ELSE PyInt(TextToNat(s))

TokPunct(c) == [t |-> "punct", c |-> c, v |-> PyNone]
TokVal(v) == [t |-> "val", c |-> "", v |-> v]

\* The token a maximal run of number characters or of letters stands for;
\* bad when the run is no number and no literal.
RunToken(mode, buf) ==
    IF mode = "num"
    THEN IF IsIntText(buf) THEN [bad |-> FALSE, tok |-> TokVal(IntOfText(buf))]
         ELSE IF IsFloatText(buf) THEN [bad |-> FALSE, tok |-> TokVal(FloatOfText(buf))]
         ELSE [bad |-> TRUE, tok |-> TokVal(PyNone)]
    ELSE IF buf = <<"n", "u", "l", "l">> THEN [bad |-> FALSE, tok |-> TokVal(PyNone)]
    ELSE IF buf = <<"t", "r", "u", "e">> THEN [bad |-> FALSE, tok |-> TokVal(PyBool(TRUE))]
    ELSE IF buf = <<"f", "a", "l", "s", "e">> THEN [bad |-> FALSE, tok |-> TokVal(PyBool(FALSE))]
    ELSE IF buf = NaNRepr THEN [bad |-> FALSE, tok |-> TokVal(PyNaN)]
    ELSE [bad |-> TRUE, tok |-> TokVal(PyNone)]

\* Ends a pending run before the character after it is looked at.
Flush(st) ==
    IF st.mode \in {"num", "lit"}
    THEN LET r == RunToken(st.mode, st.buf)
         IN  IF r.bad THEN [st EXCEPT !.err = TRUE]
             ELSE [st EXCEPT !.mode = "top", !.buf = <<>>,
                             !.toks = Append(st.toks, r.tok)]
    ELSE st

TokTop(st, ch) ==
    IF st.err THEN st
    ELSE IF IsWs(ch) THEN st
    ELSE IF ch \in Punct THEN [st EXCEPT !.toks = Append(st.toks, TokPunct(ch))]
    ELSE IF ch = QUOTE THEN [st EXCEPT !.mode = "str", !.buf = <<>>]
    ELSE IF ch \in NumChars THEN [st EXCEPT !.mode = "num", !.buf = <<ch>>]
    ELSE IF ch \in {BSLASH, "$", "*", "/"} THEN [st EXCEPT !.err = TRUE]
    ELSE [st EXCEPT !.mode = "lit", !.buf = <<ch>>]

IsLetter(ch) == ~IsWs(ch) /\ ch \notin Punct /\ ch \notin NumChars
                /\ ch \notin {QUOTE, BSLASH, "$", "*", "/"}

TokStep(st, ch) ==
    IF st.err THEN st
    ELSE IF st.mode = "str"
    THEN IF ch = QUOTE
         THEN [st EXCEPT !.mode = "top", !.buf = <<>>,
                         !.toks = Append(st.toks, TokVal(PyStr(st.buf)))]
         ELSE IF ch = BSLASH THEN [st EXCEPT !.mode = "esc"]
         ELSE IF ch = NL THEN [st EXCEPT !.err = TRUE]
         ELSE [st EXCEPT !.buf = Append(st.buf, ch)]
    ELSE IF st.mode = "esc"
    THEN IF ch \in {QUOTE, BSLASH, "/"}
         THEN [st EXCEPT !.mode = "str", !.buf = Append(st.buf, ch)]
         ELSE IF ch = "n" THEN [st EXCEPT !.mode = "str", !.buf = Append(st.buf, NL)]
         ELSE [st EXCEPT !.err = TRUE]
    ELSE IF st.mode = "num" /\ ch \in NumChars THEN [st EXCEPT !.buf = Append(st.buf, ch)]
    ELSE IF st.mode = "lit" /\ IsLetter(ch) THEN [st EXCEPT !.buf = Append(st.buf, ch)]
    ELSE TokTop(Flush(st), ch)

RECURSIVE TokFold(_, _, _, _)
TokFold(st, s, lo, hi) ==
    IF lo > hi THEN st
    ELSE IF lo = hi THEN TokStep(st, s[lo])
    ELSE LET mid == (lo + hi) \div 2
             left == TokFold(st, s, lo, mid)
         IN  IF left.err THEN left ELSE TokFold(left, s, mid + 1, hi)

TokInit == [mode |-> "top", buf |-> <<>>, toks |-> <<>>, err |-> FALSE]

\* The tokens of s, or err for a text no token sequence stands for (an
\* unterminated string included).
Tokenize(s) ==
    LET st == Flush(TokFold(TokInit, s, 1, Len(s)))
    IN  IF st.err \/ st.mode # "top" THEN [err |-> TRUE, toks |-> <<>>]
        ELSE [err |-> FALSE, toks |-> st.toks]

\* A finished value v goes to the container being built, or is the result.
Deliver(st, v) ==
    IF st.stack = <<>> THEN [st EXCEPT !.res = v, !.exp = "done"]
    ELSE LET n == Len(st.stack)
             top == st.stack[n]
             items == IF top.kind = "list" THEN Append(top.items, v)
                      ELSE DictSet(PyDict(top.items), top.key, v).v
         IN  [st EXCEPT !.stack[n].items = items, !.exp = "comma_or_close"]

\* The container on top of the stack is finished.
Close(st) ==
    LET n == Len(st.stack)
        top == st.stack[n]
        v == IF top.kind = "list" THEN PyList(top.items) ELSE PyDict(top.items)
    IN  Deliver([st EXCEPT !.stack = SubSeq(st.stack, 1, n - 1)], v)

Open(st, kind) ==
    [st EXCEPT !.stack = Append(st.stack, [kind |-> kind, items |-> <<>>, key |-> <<>>]),
               !.exp = IF kind = "list" THEN "value_or_close" ELSE "key_or_close"]

TopKind(st) == IF st.stack = <<>> THEN "none" ELSE st.stack[Len(st.stack)].kind

Fail(st) == [st EXCEPT !.err = TRUE]

ParseStep(st, tok) ==
    IF st.err THEN st
    ELSE IF st.exp \in {"value", "value_or_close"}
    THEN IF tok.t = "val" THEN Deliver(st, tok.v)
         ELSE IF tok.c = "[" THEN Open(st, "list")
         ELSE IF tok.c = "{" THEN Open(st, "dict")
         ELSE IF tok.c = "]" /\ st.exp = "value_or_close" THEN Close(st)
         ELSE Fail(st)
    ELSE IF st.exp \in {"key", "key_or_close"}
    THEN IF tok.t = "val" /\ tok.v.ty = "str"
         THEN [st EXCEPT !.stack[Len(st.stack)].key = tok.v.v, !.exp = "colon"]
         ELSE IF tok.t = "punct" /\ tok.c = "}" /\ st.exp = "key_or_close" THEN Close(st)
         ELSE Fail(st)
    ELSE IF st.exp = "colon"
    THEN IF tok.t = "punct" /\ tok.c = ":" THEN [st EXCEPT !.exp = "value"]
         ELSE Fail(st)
    ELSE IF st.exp = "comma_or_close"
    THEN IF tok.t = "punct" /\ tok.c = ","
         THEN [st EXCEPT !.exp = IF TopKind(st) = "list" THEN "value" ELSE "key"]
         ELSE IF tok.t = "punct" /\ tok.c = "]" /\ TopKind(st) = "list" THEN Close(st)
         ELSE IF tok.t = "punct" /\ tok.c = "}" /\ TopKind(st) = "dict" THEN Close(st)
         ELSE Fail(st)
    ELSE Fail(st)

RECURSIVE ParseFold(_, _, _, _)
ParseFold(st, toks, lo, hi) ==
    IF lo > hi THEN st
    ELSE IF lo = hi THEN ParseStep(st, toks[lo])
    ELSE LET mid == (lo + hi) \div 2
             left == ParseFold(st, toks, lo, mid)
         IN  IF left.err THEN left ELSE ParseFold(left, toks, mid + 1, hi)

ParseInit == [exp |-> "value", stack |-> <<>>, res |-> PyNone, err |-> FALSE]

\* json.JSONDecoder.decode(s): [exc |-> "none", val |-> the object] or
\* [exc |-> "JSONDecodeError"].
DecodeOutcome(t, st) ==
    IF t.err \/ st.err \/ st.exp # "done"
    THEN [exc |-> "JSONDecodeError", val |-> PyNone]
    ELSE [exc |-> "none", val |-> st.res]

DecodeTokens(t) == DecodeOutcome(t, ParseFold(ParseInit, t.toks, 1, Len(t.toks)))

Decode(s) == DecodeTokens(Tokenize(s))

\* _DepthCheckDecoder.decode: the nesting check, then the decoder.
DepthCheckDecode(s) ==
    IF CheckNestingRaises(s) THEN [exc |-> "ValueError", val |-> PyNone]
    ELSE Decode(s)

\* bool(x) for the objects handed to the tools
Truthy(x) ==
    IF x.ty = "NoneType" THEN FALSE
    ELSE IF x.ty \in {"bool"} THEN x.v
    ELSE IF x.ty = "int" THEN x.v # 0
    ELSE IF x.ty \in {"str", "list", "dict"} THEN x.v # <<>>
    ELSE TRUE

NoErr == [none |-> TRUE]
Err(msg) == [error |-> msg]
IsErr(r) == "error" \in DOMAIN r

\* _parse_json(raw, name): [exc, parsed, err], the returned pair (parsed, err)
\* when exc = "none", the exception that leaves the function otherwise
\* (raw.strip() on an object that is no str).
ParseOutcome(d, name) ==
    IF d.exc = "JSONDecodeError"
    THEN [exc |-> "none", parsed |-> PyNone, err |-> Err(<<"Invalid JSON in", name>>)]
    ELSE IF d.exc = "ValueError"
    THEN [exc |-> "none", parsed |-> PyNone,
          err |-> Err(<<name, "Exceeds maximum nesting depth">>)]
    ELSE [exc |-> "none", parsed |-> d.val, err |-> NoErr]

ParseJson(raw, name) ==
    IF ~Truthy(raw)
    THEN [exc |-> "none", parsed |-> PyNone, err |-> Err(<<name, "cannot be empty">>)]
    ELSE IF raw.ty # "str"
    THEN [exc |-> "AttributeError", parsed |-> PyNone, err |-> NoErr]
    ELSE IF Strip(raw.v) = <<>>
    THEN [exc |-> "none", parsed |-> PyNone, err |-> Err(<<name, "cannot be empty">>)]
    ELSE IF Len(raw.v) > MAX_INPUT_SIZE
    THEN [exc |-> "none", parsed |-> PyNone,
          err |-> Err(<<name, "exceeds maximum size">>)]
    ELSE ParseOutcome(DepthCheckDecode(raw.v), name)

(***************************************************************************)
(* Formatter: json.dumps as json_format calls it (ensure_ascii=False)      *)
(***************************************************************************)
\* The encoder's escaping of one character of a str
\* EscapeChar without the escapes (a mutant of the encoder)
EscapeCharRaw(c) == <<c>>

EscapeChar(c) ==
    IF c = QUOTE THEN <<BSLASH, QUOTE>>
    ELSE IF c = BSLASH THEN <<BSLASH, BSLASH>>
    ELSE IF c = NL THEN <<BSLASH, "n">>
    ELSE <<c>>

EncodeStr(s) == <<QUOTE>> \o Cat([k \in 1..Len(s) |-> EscapeChar(s[k])]) \o <<QUOTE>>

\* The items of a dict in the order the encoder writes them
DumpItems(d, sort_keys) ==
    IF sort_keys
    THEN LET ks == SortedKeys(Keys(d))
         IN  [k \in 1..Len(ks) |-> <<ks[k], Get(d, ks[k])>>]
    ELSE d.v

\* "\n" followed by the indentation of a nesting level
NewlineIndent(indent, level) == <<NL>> \o Rep(SP, indent * level)

\* json.dumps(x, indent=indent, ...) at nesting level `level` when indent > 0,
\* json.dumps(x, separators=(",", ":"), ...) when indent = 0.
RECURSIVE Dumps(_, _, _, _)
Dumps(x, indent, sort_keys, level) ==
    IF x.ty = "NoneType" THEN <<"n", "u", "l", "l">>
    ELSE IF x.ty = "bool"
        THEN IF x.v THEN <<"t", "r", "u", "e">> ELSE <<"f", "a", "l", "s", "e">>
    ELSE IF x.ty = "int" THEN IntToText(x.v)
    ELSE IF x.ty = "float" THEN x.v
    ELSE IF x.ty = "str" THEN EncodeStr(x.v)
    ELSE IF x.ty = "list"
    THEN IF x.v = <<>> THEN <<"[", "]">>
         ELSE LET parts == [k \in 1..Len(x.v) |->
                               Dumps(x.v[k], indent, sort_keys, level + 1)]
              IN  IF indent = 0 THEN <<"[">> \o Join(parts, <<",">>) \o <<"]">>
                  ELSE <<"[">> \o NewlineIndent(indent, level + 1)
                       \o Join(parts, <<",">> \o NewlineIndent(indent, level + 1))
                       \o NewlineIndent(indent, level) \o <<"]">>
    ELSE IF x.v = <<>> THEN <<"{", "}">>
         ELSE LET items == DumpItems(x, sort_keys)
                  ksep == IF indent = 0 THEN <<":">> ELSE <<":", SP>>
                  parts == [k \in 1..Len(items) |->
                               EncodeStr(items[k][1]) \o ksep
                               \o Dumps(items[k][2], indent, sort_keys, level + 1)]
              IN  IF indent = 0 THEN <<"{">> \o Join(parts, <<",">>) \o <<"}">>
                  ELSE <<"{">> \o NewlineIndent(indent, level + 1)
                       \o Join(parts, <<",">> \o NewlineIndent(indent, level + 1))
                       \o NewlineIndent(indent, level) \o <<"}">>

(***************************************************************************)
(* Path resolver                                                           *)
(***************************************************************************)
HasChar(s, c) == \E k \in 1..Len(s) : s[k] = c
FirstPos(s, c) == CHOOSE k \in 1..Len(s) : s[k] = c /\ \A j \in 1..(k - 1) : s[j] # c

\* expression.split(".")
RECURSIVE SplitDot(_)
SplitDot(s) ==
    IF ~HasChar(s, ".") THEN <<s>>
    ELSE <<SubSeq(s, 1, FirstPos(s, ".") - 1)>>
         \o SplitDot(SubSeq(s, FirstPos(s, ".") + 1, Len(s)))

\* _BRACKET_SPLIT.split(part): the pieces between the matches of \[[^\]]*\]
\* and, the pattern being one capture group, the matches themselves.  The
\* leftmost match starts at the first "[" and ends at the first "]" after it.
RECURSIVE BracketSplit(_)
BracketSplit(part) ==
    IF HasChar(part, "[")
       /\ HasChar(SubSeq(part, FirstPos(part, "[") + 1, Len(part)), "]")
    THEN LET i == FirstPos(part, "[")
             j == i + FirstPos(SubSeq(part, i + 1, Len(part)), "]")
         IN  <<SubSeq(part, 1, i - 1), SubSeq(part, i, j)>>
             \o BracketSplit(SubSeq(part, j + 1, Len(part)))
    ELSE <<part>>

NonEmpty(seg) == seg # <<>>

\* The token list _resolve_path builds
Tokens(expression) ==
    LET parts == SplitDot(expression)
    IN  SelectSeq(Cat([k \in 1..Len(parts) |-> BracketSplit(parts[k])]), NonEmpty)

\* _WILDCARD.fullmatch(token)
IsWildcard(token) == token = <<"[", "*", "]">>

\* _BRACKET_INDEX.fullmatch(token)
IsIndex(token) ==
    /\ Len(token) >= 3
    /\ token[1] = "["
    /\ token[Len(token)] = "]"
    /\ AllDigits(SubSeq(token, 2, Len(token) - 1))

\* int(bracket.group(1))
IndexOf(token) == TextToNat(SubSeq(token, 2, Len(token) - 1))

Raise(exc, msg) == [exc |-> exc, msg |-> msg, val |-> PyNone]
Return(val) == [exc |-> "none", msg |-> <<>>, val |-> val]

\* A comprehension that leaves out the elements that raise (a mutant)
ComprehensionSkip(rs) ==
    LET ok == SelectSeq(rs, LAMBDA r : r.exc = "none")
    IN  Return(PyList([k \in 1..Len(ok) |-> ok[k].val]))

\* The first exception a list comprehension meets, or the list of its values
Comprehension(rs) ==
    IF \E k \in 1..Len(rs) : rs[k].exc # "none"
    THEN rs[CHOOSE k \in 1..Len(rs) :
                /\ rs[k].exc # "none"
                /\ \A j \in 1..(k - 1) : rs[j].exc = "none"]
    ELSE Return(PyList([k \in 1..Len(rs) |-> rs[k].val]))

\* _walk(current, tokens, idx), idx counting from 0 as in the source
RECURSIVE _walk(_, _, _)
_walk(current, tokens, idx) ==
    IF idx >= Len(tokens) THEN Return(current)
    ELSE LET token == tokens[idx + 1]
         IN  IF IsWildcard(token)
             THEN IF ~IsList(current)
                  THEN Raise("TypeError",
                             <<"Expected list for [*], got ", TypeName(current)>>)
                  ELSE Comprehension([k \in 1..Len(current.v) |->
                                         _walk(current.v[k], tokens, idx + 1)])
             ELSE IF IsIndex(token)
             THEN IF ~IsList(current)
                  THEN Raise("TypeError",
                             <<"Expected list for index [">>
                             \o IntToText(IndexOf(token))
                             \o <<"], got ", TypeName(current)>>)
                  ELSE IF IndexOf(token) >= Len(current.v)
                  THEN Raise("IndexError",
                             <<"Index [">> \o IntToText(IndexOf(token))
                             \o <<"] out of range (length ">>
                             \o IntToText(Len(current.v)) \o <<")">>)
                  ELSE _walk(current.v[IndexOf(token) + 1], tokens, idx + 1)
             ELSE IF ~IsDict(current)
             THEN Raise("TypeError",
                        <<"Expected object for key '">> \o token
                        \o <<"', got ", TypeName(current)>>)
             ELSE IF ~HasKey(current, token)
             THEN Raise("KeyError",
                        <<"Key '">> \o token \o <<"' not found. Available keys: ">>
                        \o Join(KeyList(current), <<", ">>))
             ELSE _walk(Get(current, token), tokens, idx + 1)

_resolve_path(obj, expression) == _walk(obj, Tokens(expression), 0)

(***************************************************************************)
(* Deep merger                                                             *)
(***************************************************************************)
\* MergeItems without the recursion: the override's value replaces the
\* base's at every key
RECURSIVE MergeItemsShallow(_, _, _)
MergeItemsShallow(merged, items, k) ==
    IF k > Len(items) THEN merged
    ELSE MergeItemsShallow(DictSet(merged, items[k][1], items[k][2]), items, k + 1)

\* _deep_merge(base, override); MergeItems is its loop over override.items()
\* from item k on, merged being the dict built so far.
RECURSIVE _deep_merge(_, _)
RECURSIVE MergeItems(_, _, _)
MergeItems(merged, items, k) ==
    IF k > Len(items) THEN merged
    ELSE LET key == items[k][1]
             value == items[k][2]
         IN  IF HasKey(merged, key)
             THEN MergeItems(DictSet(merged, key, _deep_merge(Get(merged, key), value)),
                             items, k + 1)
             ELSE MergeItems(DictSet(merged, key, value), items, k + 1)

_deep_merge(base, override) ==
    IF IsDict(base) /\ IsDict(override) THEN MergeItems(base, override.v, 1)
    ELSE override

(***************************************************************************)
(* Structural differ                                                       *)
(***************************************************************************)
Max(a, b) == IF a >= b THEN a ELSE b

\* f"{prefix}.{key}"
KeyPath(prefix, key) == prefix \o <<".">> \o key

\* IndexPath counting the elements from 1
IndexPathFromOne(prefix, i) == prefix \o <<"[">> \o IntToText(i + 1) \o <<"]">>

\* f"{prefix}[{i}]"
IndexPath(prefix, i) == prefix \o <<"[">> \o IntToText(i) \o <<"]">>

\* _diff(first, second, path); path "" stands for the root, written "$".
RECURSIVE _diff(_, _, _)
_diff(first, second, path) ==
    LET prefix == IF path = <<>> THEN <<"$">> ELSE path
    IN  IF first.ty # second.ty
        THEN <<[path |-> prefix, type |-> "type_changed",
                from |-> TypeName(first), to |-> TypeName(second),
                old_value |-> first, new_value |-> second]>>
        ELSE IF IsDict(first)
        THEN LET keys == SortedKeys(Keys(first) \cup Keys(second))
                 child(key) == KeyPath(prefix, key)
             IN  Cat([k \in 1..Len(keys) |->
                        IF ~HasKey(first, keys[k])
                        THEN <<[path |-> child(keys[k]), type |-> "added",
                                value |-> Get(second, keys[k])]>>
                        ELSE IF ~HasKey(second, keys[k])
                        THEN <<[path |-> child(keys[k]), type |-> "removed",
                                value |-> Get(first, keys[k])]>>
                        ELSE _diff(Get(first, keys[k]), Get(second, keys[k]),
                                   child(keys[k]))])
        ELSE IF IsList(first)
        THEN LET max_len == Max(Len(first.v), Len(second.v))
                 child(i) == IndexPath(prefix, i)
             IN  Cat([k \in 1..max_len |->
                        IF k - 1 >= Len(first.v)
                        THEN <<[path |-> child(k - 1), type |-> "added",
                                value |-> second.v[k]]>>
                        ELSE IF k - 1 >= Len(second.v)
                        THEN <<[path |-> child(k - 1), type |-> "removed",
                                value |-> first.v[k]]>>
                        ELSE _diff(first.v[k], second.v[k], child(k - 1))])
        ELSE IF ScalarNe(first, second)
        THEN <<[path |-> prefix, type |-> "changed",
                old_value |-> first, new_value |-> second]>>
        ELSE <<>>

(***************************************************************************)
(* Tool handlers.  A handler's try body gives [exc, ret]: the dict it      *)
(* returns (exc = "none") or the exception that leaves it; the handler     *)
(* applies its except clauses to that.  A result [raised |-> e] stands for *)
(* an exception e leaving the handler.                                     *)
(***************************************************************************)
Ret(r) == [exc |-> "none", msg |-> <<>>, ret |-> r]
Exc(exc, msg) == [exc |-> exc, msg |-> msg, ret |-> Err(<<>>)]

\* str(e): a KeyError shows the repr of its message
StrOfExc(b) == IF b.exc = "KeyError" THEN <<"repr(">> \o b.msg \o <<")">> ELSE b.msg

\* The body without the except clause: the exception leaves the operation
\* (a mutant)
CatchNone(b, label) ==
    IF b.exc = "none" THEN b.ret ELSE [raised |-> b.exc]

\* try: ... except Exception as e: return {"error": f"<label> failed: {e}"}
CatchAll(b, label) ==
    IF b.exc = "none" THEN b.ret
    ELSE Err(<<label, " failed: ">> \o StrOfExc(b))

\* What the external jsonschema package does for one call of json_validate:
\* it is missing, its validator raises, or it yields a list of errors.
ValidatorOutcomes == {"not_installed", "raises", "no_errors", "one_error"}

\* The rest of json_validate once both texts went through _parse_json
json_validate_parsed(p, q, outcome) ==
    LET errors == IF outcome = "one_error"
                  THEN <<[message |-> "m", path |-> <<>>]>> ELSE <<>>
    IN  IF p.exc # "none" THEN Exc(p.exc, <<"strip">>)
        ELSE IF IsErr(p.err) THEN Ret(p.err)
        ELSE IF q.exc # "none" THEN Exc(q.exc, <<"strip">>)
        ELSE IF IsErr(q.err) THEN Ret(q.err)
        ELSE IF ~IsDict(q.parsed) THEN Ret(Err(<<"schema must be a JSON object">>))
        ELSE IF outcome = "not_installed" THEN Ret(Err(<<"jsonschema not installed">>))
        ELSE IF outcome = "raises" THEN Exc("SchemaError", <<"schema">>)
        ELSE Ret([valid |-> Len(errors) = 0, errors |-> errors,
                  error_count |-> Len(errors)])

json_validate_body(data, schema, outcome) ==
    json_validate_parsed(ParseJson(data, "data"), ParseJson(schema, "schema"), outcome)

json_validate(data, schema, outcome) ==
    CatchAll(json_validate_body(data, schema, outcome), "Validation")

\* The rest of json_transform once the expression went through _resolve_path
json_transform_resolved(p, expression, r) ==
    IF p.exc # "none" THEN Exc(p.exc, <<"strip">>)
    ELSE IF IsErr(p.err) THEN Ret(p.err)
    ELSE IF ~Truthy(expression) THEN Ret(Err(<<"expression cannot be empty">>))
    ELSE IF expression.ty # "str" THEN Exc("AttributeError", <<"strip">>)
    ELSE IF Strip(expression.v) = <<>>
    THEN Ret(Err(<<"expression cannot be empty">>))
    ELSE IF r.exc # "none" THEN Exc(r.exc, r.msg)
    ELSE Ret([success |-> TRUE, expression |-> expression.v,
              result |-> r.val, result_type |-> TypeName(r.val)])

\* The rest of json_transform once the text went through _parse_json
json_transform_parsed(p, expression) ==
    json_transform_resolved(p, expression, _resolve_path(p.parsed, Strip(expression.v)))

json_transform_body(data, expression) ==
    json_transform_parsed(ParseJson(data, "data"), expression)

\* except (KeyError, IndexError, TypeError) as e: return {"error": str(e)}
CatchPathErrors(b) ==
    IF b.exc \in {"KeyError", "IndexError", "TypeError"} THEN Err(StrOfExc(b))
    ELSE CatchAll(b, "Transform")

json_transform(data, expression) == CatchPathErrors(json_transform_body(data, expression))

\* The rest of json_merge once both texts went through _parse_json
json_merge_parsed(p, q) ==
    IF p.exc # "none" THEN Exc(p.exc, <<"strip">>)
    ELSE IF IsErr(p.err) THEN Ret(p.err)
    ELSE IF q.exc # "none" THEN Exc(q.exc, <<"strip">>)
    ELSE IF IsErr(q.err) THEN Ret(q.err)
    ELSE IF ~IsDict(p.parsed) THEN Ret(Err(<<"base must be a JSON object">>))
    ELSE IF ~IsDict(q.parsed) THEN Ret(Err(<<"override must be a JSON object">>))
    ELSE Ret([success |-> TRUE, result |-> _deep_merge(p.parsed, q.parsed)])

json_merge_body(base, override) ==
    json_merge_parsed(ParseJson(base, "base"), ParseJson(override, "override"))

json_merge(base, override) == CatchAll(json_merge_body(base, override), "Merge")

\* The record json_diff returns for the list of differences
DiffPayload(diffs) ==
    [equal |-> Len(diffs) = 0, differences |-> diffs, difference_count |-> Len(diffs)]

\* The rest of json_diff once both texts went through _parse_json
json_diff_parsed(p, q) ==
    IF p.exc # "none" THEN Exc(p.exc, <<"strip">>)
    ELSE IF IsErr(p.err) THEN Ret(p.err)
    ELSE IF q.exc # "none" THEN Exc(q.exc, <<"strip">>)
    ELSE IF IsErr(q.err) THEN Ret(q.err)
    ELSE Ret(DiffPayload(_diff(p.parsed, q.parsed, <<>>)))

json_diff_body(first, second) ==
    json_diff_parsed(ParseJson(first, "first"), ParseJson(second, "second"))

json_diff(first, second) == CatchAll(json_diff_body(first, second), "Diff")

\* The rest of json_format once the text went through _parse_json
json_format_parsed(p, indent, sort_keys) ==
    IF p.exc # "none" THEN Exc(p.exc, <<"strip">>)
    ELSE IF IsErr(p.err) THEN Ret(p.err)
    ELSE IF indent < 0 \/ indent > 8 THEN Ret(Err(<<"indent must be 0-8">>))
    ELSE Ret([success |-> TRUE, result |-> Dumps(p.parsed, indent, sort_keys, 0),
              minified |-> indent = 0])

json_format_body(data, indent, sort_keys) ==
    json_format_parsed(ParseJson(data, "data"), indent, sort_keys)

json_format(data, indent, sort_keys) ==
    CatchAll(json_format_body(data, indent, sort_keys), "Format")

(***************************************************************************)
(* SpecParse: _parse_json applied to one text.                             *)
(*                                                                         *)
(* The texts are  pre . open^n . core . close^n-or-nothing . pad  with n   *)
(* around 0 and around MAX_DEPTH: brackets, bare braces or keyed braces,   *)
(* after a prefix that closes brackets first, or opens or closes a string  *)
(* literal, with or without backslashes.                                   *)
(***************************************************************************)
MaxNest == 52
MaxPad == 40

NestCounts == (0..3) \cup ((MAX_DEPTH - 2)..MaxNest)

ParsePrefixes ==
    { <<>>,
      <<"]", "]">>,                                  \* ]]
      <<BSLASH, QUOTE>>,                             \* \"   (backslash outside a string)
      <<QUOTE, BSLASH, BSLASH, QUOTE, SP>>,          \* "\\"
      <<QUOTE, BSLASH, QUOTE>>,                      \* "\"  (string left open)
      <<QUOTE, "[", "[", BSLASH, QUOTE, "[", QUOTE, SP>>,  \* "[[\"["
      <<"[", "[", "]", "]", SP>> }

ParseCores == { <<"1">>, <<>>, <<QUOTE, "]", "[", "{", QUOTE>> }

OpenText(style, n) ==
    IF style = "list" THEN Rep("[", n)
    ELSE IF style = "bare" THEN Rep("{", n)
    ELSE Cat([k \in 1..n |-> <<"{", QUOTE, "a", QUOTE, ":">>])

CloseText(style, n) == IF style = "list" THEN Rep("]", n) ELSE Rep("}", n)

ParseText(pre, style, n, core, closed, pad) ==
    pre \o OpenText(style, n) \o core
    \o (IF closed THEN CloseText(style, n) ELSE <<>>) \o Rep(SP, pad)

ParseInputs ==
    { ParseText(pre, style, n, core, closed, pad) :
        pre \in ParsePrefixes, style \in {"list", "bare", "keyed"}, n \in NestCounts,
        core \in ParseCores, closed \in BOOLEAN, pad \in {0, MaxPad} }

InitParse ==
    /\ pc = "start"
    /\ call \in {[op |-> "parse", raw |-> PyStr(s)] : s \in ParseInputs}
    /\ result = <<>>
    /\ heap = <<>>

DoParse ==
    /\ pc = "start"
    /\ result' = <<ParseJson(call.raw, "data")>>
    /\ pc' = "done"
    /\ UNCHANGED <<call, heap>>

NextParse == DoParse

SpecParse == InitParse /\ [][NextParse]_vars

(***************************************************************************)
(* C1.  The claim's own scan, kept apart from the code's: the string-      *)
(* literal flag and the backslash-escape flag give, for every character,   *)
(* whether it stands outside string literals; the counter at a prefix is   *)
(* the number of such "{"/"[" minus the number of such "}"/"]".            *)
(***************************************************************************)
LitStep(f, ch) ==
    IF f.escape
    THEN [f EXCEPT !.escape = FALSE, !.outside = Append(f.outside, FALSE)]
    ELSE IF f.in_string
    THEN [f EXCEPT !.escape = (ch = BSLASH),
                   !.in_string = (ch # QUOTE),
                   !.outside = Append(f.outside, FALSE)]
    ELSE [f EXCEPT !.in_string = (ch = QUOTE),
                   !.outside = Append(f.outside, ch # QUOTE)]

\* The test on the first half's flags makes the halves evaluate in order.
RECURSIVE LitFold(_, _, _, _)
LitFold(f, s, lo, hi) ==
    IF lo > hi THEN f
    ELSE IF lo = hi THEN LitStep(f, s[lo])
    ELSE LET mid == (lo + hi) \div 2
             left == LitFold(f, s, lo, mid)
         IN  IF Len(left.outside) = mid
             THEN LitFold(left, s, mid + 1, hi) ELSE left

OutsideFlags(s) ==
    LitFold([in_string |-> FALSE, escape |-> FALSE, outside |-> <<>>], s, 1, Len(s)).outside

CounterAt(s, out, p) ==
    Cardinality({k \in 1..p : out[k] /\ s[k] \in {"{", "["}})
    - Cardinality({k \in 1..p : out[k] /\ s[k] \in {"}", "]"}})

CounterExceeds(s) ==
    LET out == OutsideFlags(s)
    IN  \E p \in 1..Len(s) : CounterAt(s, out, p) > 50

DepthExceeded(r) == r.err = Err(<<"data", "Exceeds maximum nesting depth">>)

SetMax(S) == CHOOSE m \in S : \A n \in S : m >= n

\* The nesting depth of a value: 0 for a scalar
RECURSIVE ValueDepth(_)
ValueDepth(x) ==
    IF x.ty = "list"
    THEN 1 + SetMax({0} \cup {ValueDepth(x.v[k]) : k \in 1..Len(x.v)})
    ELSE IF x.ty = "dict"
    THEN 1 + SetMax({0} \cup {ValueDepth(x.v[k][2]) : k \in 1..Len(x.v)})
    ELSE 0

\* The first n characters of s are unescaped opening brackets or braces
StartsWithOpens(s, n) == Len(s) >= n /\ \A k \in 1..n : s[k] \in {"{", "["}

\* C1: for a non-empty text within the size limit, _parse_json fails with the
\* depth error exactly when the counter of "{"/"[" minus "}"/"]" outside
\* string literals exceeds 50 at some prefix, well-formed or not; 51 opening
\* brackets fail with it, and a well-formed text nested exactly 50 deep
\* parses to its value.
ParseDepthRule ==
    pc = "done" =>
        LET s == call.raw.v
            r == result[1]
        IN  (s # <<>> /\ Len(s) <= MAX_INPUT_SIZE) =>
              /\ DepthExceeded(r) <=> CounterExceeds(s)
              /\ StartsWithOpens(s, 51) => DepthExceeded(r)
              /\ (Decode(s).exc = "none" /\ ValueDepth(Decode(s).val) = 50)
                    => (r.err = NoErr /\ r.parsed = Decode(s).val)

\* A text that is well-formed JSON nested 51 deep was refused for its depth.
ParseDepthWitness ==
    /\ pc = "done"
    /\ Len(call.raw.v) <= MAX_INPUT_SIZE
    /\ DepthExceeded(result[1])
    /\ Decode(call.raw.v).exc = "none"
    /\ ValueDepth(Decode(call.raw.v).val) = 51

(***************************************************************************)
(* SpecMerge: json_merge applied to the texts of two trees.                *)
(***************************************************************************)
KA == <<"a">>
KB == <<"b">>

\* A dict with key a (when va is a value) and key b (when vb is one); Absent
\* stands for a key the dict does not have.
Absent == [ty |-> "absent", v |-> 0]

DictAB(va, vb) ==
    PyDict((IF va = Absent THEN <<>> ELSE << <<KA, va>> >>)
           \o (IF vb = Absent THEN <<>> ELSE << <<KB, vb>> >>))

MergeLeaves == {PyInt(1), PyInt(2), PyList(<<PyInt(1)>>), PyList(<<PyInt(2), PyInt(3)>>)}

MergeInner ==
    {DictAB(va, vb) : va \in {Absent, PyInt(1), PyInt(2), DictAB(PyInt(1), Absent)},
                      vb \in {Absent, PyInt(1)}}

MergeSlots == {Absent} \cup MergeLeaves \cup MergeInner

MergeTrees ==
    {DictAB(va, vb) :
        va \in MergeSlots,
        vb \in {Absent, PyInt(1), PyList(<<PyInt(1)>>), PyList(<<PyInt(2), PyInt(3)>>),
                DictAB(Absent, PyInt(2))}}

\* The text a caller sends for a tree
TextOf(x) == PyStr(Dumps(x, 0, FALSE, 0))

MergeArgs == {TextOf(x) : x \in MergeTrees} \cup {TextOf(PyList(<<PyInt(1)>>)), TextOf(PyInt(1))}

InitMerge ==
    /\ pc = "start"
    /\ call \in {[op |-> "merge", base |-> b, override |-> o] : b \in MergeArgs, o \in MergeArgs}
    /\ result = <<>>
    /\ heap = <<>>

DoMerge ==
    /\ pc = "start"
    /\ call.op = "merge"
    /\ result' = <<json_merge(call.base, call.override)>>
    /\ pc' = "done"
    /\ UNCHANGED <<call, heap>>

NextMerge == DoMerge

SpecMerge == InitMerge /\ [][NextMerge]_vars

\* What the claim asks of a merged Object m of base b and override o
RECURSIVE MergedAsClaimed(_, _, _)
MergedAsClaimed(b, o, m) ==
    /\ IsDict(m)
    /\ Keys(m) = Keys(b) \cup Keys(o)
    /\ \A key \in Keys(m) :
          IF ~HasKey(o, key) THEN Get(m, key) = Get(b, key)
          ELSE IF ~HasKey(b, key) THEN Get(m, key) = Get(o, key)
          ELSE IF IsDict(Get(b, key)) /\ IsDict(Get(o, key))
          THEN MergedAsClaimed(Get(b, key), Get(o, key), Get(m, key))
          ELSE Get(m, key) = Get(o, key)

MergeBase == ParseJson(call.base, "base").parsed
MergeOverride == ParseJson(call.override, "override").parsed

\* C2: the merge of two Object trees is an Object over the union of the keys;
\* a key of one side keeps that side's value, a key of both sides with Object
\* values carries their merge, and any other key of both sides carries the
\* override's value alone.
MergeRule ==
    (pc = "done" /\ IsDict(MergeBase) /\ IsDict(MergeOverride)) =>
        /\ DOMAIN result[1] = {"success", "result"}
        /\ MergedAsClaimed(MergeBase, MergeOverride, result[1].result)

\* A merge with, under key a, Objects on both sides that differ, and under
\* key b an Array on both sides.
MergeWitness ==
    /\ pc = "done"
    /\ IsDict(MergeBase) /\ IsDict(MergeOverride)
    /\ HasKey(MergeBase, KA) /\ HasKey(MergeOverride, KA)
    /\ IsDict(Get(MergeBase, KA)) /\ IsDict(Get(MergeOverride, KA))
    /\ Keys(Get(MergeBase, KA)) \ Keys(Get(MergeOverride, KA)) # {}
    /\ Keys(Get(MergeOverride, KA)) \ Keys(Get(MergeBase, KA)) # {}
    /\ HasKey(MergeBase, KB) /\ HasKey(MergeOverride, KB)
    /\ IsList(Get(MergeBase, KB)) /\ IsList(Get(MergeOverride, KB))
    /\ Get(MergeBase, KB) # Get(MergeOverride, KB)
    /\ "result" \in DOMAIN result[1]

(***************************************************************************)
(* SpecDiff: json_diff applied to the texts of two trees.                  *)
(***************************************************************************)
KAB == <<"a", ".", "b">>

F10 == PyFloat(<<"1", ".", "0">>)
F25 == PyFloat(<<"2", ".", "5">>)

DiffScalars ==
    {PyNone, PyBool(TRUE), PyInt(1), PyInt(2), F10, F25, PyNaN, PyStr(<<"a">>)}

DiffLists ==
    {PyList(<<>>), PyList(<<PyInt(1)>>), PyList(<<PyInt(2)>>),
     PyList(<<PyInt(1), PyInt(2)>>), PyList(<<PyInt(1), PyInt(2), PyInt(3)>>),
     PyList(<<PyList(<<PyInt(1)>>), PyInt(2)>>),
     PyList(<<DictAB(PyInt(1), Absent), PyNaN>>)}

DiffDicts ==
    {DictAB(va, vb) : va \in {Absent, PyInt(1), F10, PyList(<<PyInt(1), PyInt(2)>>),
                              DictAB(PyInt(1), Absent),
                              DictAB(Absent, PyInt(2)), DictAB(Absent, PyInt(3))},
                      vb \in {Absent, PyInt(1), PyInt(2), PyStr(<<"a">>)}}
    \cup {PyDict(<< <<KB, PyInt(1)>>, <<KA, PyInt(1)>> >>),
          PyDict(<< <<KAB, PyInt(1)>>, <<KA, DictAB(Absent, PyInt(2))>> >>),
          PyDict(<< <<KAB, PyInt(1)>>, <<KA, DictAB(Absent, PyInt(3))>> >>)}

DiffTrees == DiffScalars \cup DiffLists \cup DiffDicts

InitDiff ==
    /\ pc = "start"
    /\ call \in {[op |-> "diff", first |-> TextOf(x), second |-> TextOf(y)] :
                    x \in DiffTrees, y \in DiffTrees}
    /\ result = <<>>
    /\ heap = <<>>

DoDiff ==
    /\ pc = "start"
    /\ call.op = "diff"
    /\ result' = <<json_diff(call.first, call.second)>>
    /\ pc' = "done"
    /\ UNCHANGED <<call, heap>>

NextDiff == DoDiff

SpecDiff == InitDiff /\ [][NextDiff]_vars

DiffFirst == ParseJson(call.first, "first").parsed
DiffSecond == ParseJson(call.second, "second").parsed

(***************************************************************************)
(* Applying diff records to a tree.  A record's path is read by the        *)
(* grammar of the paths: "$", then ".key" for a key and "[i]" for an       *)
(* element.  Values are set in the order of the records, then values are   *)
(* deleted from the last record to the first, so that the index of a       *)
(* deleted element still names the element the record was written for.     *)
(***************************************************************************)
StepKey(key) == [k |-> "key", key |-> key, i |-> 0]
StepIdx(i) == [k |-> "idx", key |-> <<>>, i |-> i]
StepBad == [k |-> "bad", key |-> <<>>, i |-> 0]

\* The length of the key p starts with: up to the next "." or "["
KeyEnd(p) ==
    IF \E k \in 1..Len(p) : p[k] \in {".", "["}
    THEN (CHOOSE k \in 1..Len(p) : p[k] \in {".", "["}
                                  /\ \A j \in 1..(k - 1) : p[j] \notin {".", "["}) - 1
    ELSE Len(p)

RECURSIVE PathSteps(_)
PathSteps(p) ==
    IF p = <<>> THEN <<>>
    ELSE IF p[1] = "."
    THEN LET rest == Tail(p)
             n == KeyEnd(rest)
         IN  <<StepKey(SubSeq(rest, 1, n))>> \o PathSteps(SubSeq(rest, n + 1, Len(rest)))
    ELSE IF p[1] = "[" /\ HasChar(p, "]") /\ FirstPos(p, "]") > 2
            /\ AllDigits(SubSeq(p, 2, FirstPos(p, "]") - 1))
    THEN <<StepIdx(TextToNat(SubSeq(p, 2, FirstPos(p, "]") - 1)))>>
         \o PathSteps(SubSeq(p, FirstPos(p, "]") + 1, Len(p)))
    ELSE <<StepBad>>

\* The steps of a record's path, "$" taken off
StepsOf(path) == PathSteps(Tail(path))

DictDel(d, key) == PyDict(SelectSeq(d.v, LAMBDA item : item[1] # key))

ListDel(l, i) == PyList(SubSeq(l.v, 1, i) \o SubSeq(l.v, i + 2, Len(l.v)))

ListSet(l, i, val) == PyList([k \in 1..Len(l.v) |-> IF k = i + 1 THEN val ELSE l.v[k]])

RECURSIVE SetAt(_, _, _)
SetAt(tree, steps, val) ==
    IF steps = <<>> THEN val
    ELSE LET st == steps[1]
             rest == Tail(steps)
         IN  IF st.k = "key" /\ IsDict(tree)
             THEN IF HasKey(tree, st.key)
                  THEN DictSet(tree, st.key, SetAt(Get(tree, st.key), rest, val))
                  ELSE IF rest = <<>> THEN DictSet(tree, st.key, val) ELSE tree
             ELSE IF st.k = "idx" /\ IsList(tree)
             THEN IF st.i < Len(tree.v)
                  THEN ListSet(tree, st.i, SetAt(tree.v[st.i + 1], rest, val))
                  ELSE IF st.i = Len(tree.v) /\ rest = <<>>
                  THEN PyList(Append(tree.v, val)) ELSE tree
             ELSE tree

RECURSIVE DelAt(_, _)
DelAt(tree, steps) ==
    IF steps = <<>> THEN tree
    ELSE LET st == steps[1]
             rest == Tail(steps)
         IN  IF st.k = "key" /\ IsDict(tree) /\ HasKey(tree, st.key)
             THEN IF rest = <<>> THEN DictDel(tree, st.key)
                  ELSE DictSet(tree, st.key, DelAt(Get(tree, st.key), rest))
             ELSE IF st.k = "idx" /\ IsList(tree) /\ st.i < Len(tree.v)
             THEN IF rest = <<>> THEN ListDel(tree, st.i)
                  ELSE ListSet(tree, st.i, DelAt(tree.v[st.i + 1], rest))
             ELSE tree

RECURSIVE ApplySets(_, _, _, _)
ApplySets(tree, recs, k, kinds) ==
    IF k > Len(recs) THEN tree
    ELSE LET r == recs[k]
         IN  IF r.type \in kinds /\ r.type = "added"
             THEN ApplySets(SetAt(tree, StepsOf(r.path), r.value), recs, k + 1, kinds)
             ELSE IF r.type \in kinds /\ r.type \in {"changed", "type_changed"}
             THEN ApplySets(SetAt(tree, StepsOf(r.path), r.new_value), recs, k + 1, kinds)
             ELSE ApplySets(tree, recs, k + 1, kinds)

RECURSIVE ApplyDels(_, _, _)
ApplyDels(tree, recs, k) ==
    IF k < 1 THEN tree
    ELSE IF recs[k].type = "removed"
    THEN ApplyDels(DelAt(tree, StepsOf(recs[k].path)), recs, k - 1)
    ELSE ApplyDels(tree, recs, k - 1)

ApplyRecords(tree, recs, kinds) ==
    ApplyDels(ApplySets(tree, recs, 1, kinds), recs, Len(recs))

\* A tree with the items of every Object in key order: two trees are equal
\* as JSON values when their canonical forms are the same.
RECURSIVE Canon(_)
Canon(x) ==
    IF x.ty = "list" THEN PyList([k \in 1..Len(x.v) |-> Canon(x.v[k])])
    ELSE IF x.ty = "dict"
    THEN LET ks == SortedKeys(Keys(x))
         IN  PyDict([k \in 1..Len(ks) |-> <<ks[k], Canon(Get(x, ks[k]))>>])
    ELSE x

\* Every key of every Object of the tree is free of "." and "["
RECURSIVE PlainKeys(_)
PlainKeys(x) ==
    IF x.ty = "list" THEN \A k \in 1..Len(x.v) : PlainKeys(x.v[k])
    ELSE IF x.ty = "dict"
    THEN \A k \in 1..Len(x.v) :
            /\ ~HasChar(x.v[k][1], ".") /\ ~HasChar(x.v[k][1], "[")
            /\ PlainKeys(x.v[k][2])
    ELSE TRUE

Differences == result[1].differences

RecordTypes == {Differences[k].type : k \in 1..Len(Differences)}

\* C3 as stated: the Added, Removed and Changed records of diff(first,
\* second), applied to first, give a tree equal to second.
DiffLosslessAsStated ==
    pc = "done" =>
        Canon(ApplyRecords(DiffFirst, Differences, {"added", "removed", "changed"}))
            = Canon(DiffSecond)

\* C3 as amended: the Added, Removed, Changed and TypeChanged records, a
\* TypeChanged record setting its new value at its path, give a tree equal
\* to second when no Object key of either tree contains "." or "[".
DiffLossless ==
    (pc = "done" /\ PlainKeys(DiffFirst) /\ PlainKeys(DiffSecond)) =>
        Canon(ApplyRecords(DiffFirst, Differences,
                           {"added", "removed", "changed", "type_changed"}))
            = Canon(DiffSecond)

\* A diff that adds, removes and changes the type of values, between trees
\* with plain keys.
DiffLosslessWitness ==
    /\ pc = "done"
    /\ PlainKeys(DiffFirst) /\ PlainKeys(DiffSecond)
    /\ {"added", "removed", "type_changed"} \subseteq RecordTypes

\* C4 as stated: a tree compared with itself has no differences, equal is
\* true exactly when there is no record, and difference_count is the number
\* of records.
DiffSelfEmpty ==
    pc = "done" =>
        /\ (call.first = call.second => Differences = <<>>)
        /\ (result[1].equal <=> Differences = <<>>)
        /\ result[1].difference_count = Len(Differences)

(***************************************************************************)
(* The records the six shape tags call for.                                *)
(***************************************************************************)
ShapeTag(x) ==
    CASE x.ty = "NoneType" -> "Null"
      [] x.ty = "bool" -> "Boolean"
      [] x.ty \in {"int", "float"} -> "Number"
      [] x.ty = "str" -> "String"
      [] x.ty = "list" -> "Array"
      [] x.ty = "dict" -> "Object"

\* The value of a Number whose text has one digit after the point, in tenths
Tenths(x) ==
    IF x.ty = "int" THEN 10 * x.v
    ELSE LET d == DotPos(x.v)
         IN  10 * TextToNat(SubSeq(x.v, 1, d - 1)) + TextToNat(SubSeq(x.v, d + 1, Len(x.v)))

\* Equality of two scalars of one shape tag
ScalarEq(a, b) ==
    IF ShapeTag(a) = "Number"
    THEN /\ a # PyNaN /\ b # PyNaN
         /\ Tenths(a) = Tenths(b)
    ELSE a.v = b.v

RECURSIVE ShapeDiff(_, _, _)
ShapeDiff(first, second, path) ==
    IF ShapeTag(first) # ShapeTag(second)
    THEN << <<path, "type_changed">> >>
    ELSE IF IsDict(first)
    THEN LET keys == SortedKeys(Keys(first) \cup Keys(second))
         IN  Cat([k \in 1..Len(keys) |->
                    IF ~HasKey(first, keys[k])
                    THEN << <<KeyPath(path, keys[k]), "added">> >>
                    ELSE IF ~HasKey(second, keys[k])
                    THEN << <<KeyPath(path, keys[k]), "removed">> >>
                    ELSE ShapeDiff(Get(first, keys[k]), Get(second, keys[k]),
                                   KeyPath(path, keys[k]))])
    ELSE IF IsList(first)
    THEN Cat([k \in 1..Max(Len(first.v), Len(second.v)) |->
                IF k > Len(first.v) THEN << <<IndexPath(path, k - 1), "added">> >>
                ELSE IF k > Len(second.v)
                THEN << <<IndexPath(path, k - 1), "removed">> >>
                ELSE ShapeDiff(first.v[k], second.v[k], IndexPath(path, k - 1))])
    ELSE IF ScalarEq(first, second) THEN <<>>
    ELSE << <<path, "changed">> >>

\* C5 as stated: at every compared position the diff has a TypeChanged record
\* exactly when the shape tags differ, one Changed record for unequal scalars
\* of one shape tag, and nothing for equal values.
DiffShapeRule ==
    pc = "done" =>
        [k \in 1..Len(Differences) |-> <<Differences[k].path, Differences[k].type>>]
            = ShapeDiff(DiffFirst, DiffSecond, <<"$">>)

(***************************************************************************)
(* SpecFormat: json_format applied to a text, then to the text it made,    *)
(* with the same indent and sort_keys.                                     *)
(***************************************************************************)
MaxOnes == 159
MaxDeep == 10

\* [1,1,...,1] with n elements
OnesText(n) == <<"[">> \o Join([k \in 1..n |-> <<"1">>], <<",">>) \o <<"]">>

FormatRaw ==
    { <<SP, "[", "1", ",", SP, "2", SP, "]", NL>>,                   \*  [1, 2 ]
      <<"{", QUOTE, "b", QUOTE, ":", "1", ",", SP,
        QUOTE, "a", QUOTE, ":", "2", "}">>,                          \* {"b":1, "a":2}
      <<"{", QUOTE, "a", QUOTE, ":", "1", ",",
        QUOTE, "a", QUOTE, ":", "2", "}">>,                          \* {"a":1,"a":2}
      <<"1", ".", "5", "0">>,                                        \* 1.50
      <<"-", "0">>,                                                  \* -0
      <<QUOTE, "a", BSLASH, "n", BSLASH, QUOTE, BSLASH, BSLASH, "b", QUOTE>>,
      <<"[", QUOTE, BSLASH, "/", QUOTE, "]">>,                       \* ["\/"]
      <<"{", QUOTE, BSLASH, QUOTE, QUOTE, ":", "[", "]", "}">>,      \* {"\"":[]}
      <<"[", "1", ",", "]">>,                                        \* [1,]
      <<"{", "}", "x">> }

FormatTexts ==
    FormatRaw
    \cup {Dumps(x, 0, FALSE, 0) : x \in DiffTrees}
    \cup {OnesText(n) : n \in {20, 60, MaxOnes}}
    \cup {Rep("[", n) \o Rep("]", n) : n \in {3, MaxDeep}}

InitFormat ==
    /\ pc = "start"
    /\ call \in {[op |-> "format", data |-> PyStr(t), indent |-> i, sort_keys |-> sk] :
                    t \in FormatTexts, i \in {0, 2, 8}, sk \in BOOLEAN}
    /\ result = <<>>
    /\ heap = <<>>

\* format(parse(x), i, s)
Format ==
    /\ pc = "start"
    /\ call.op = "format"
    /\ result' = <<json_format(call.data, call.indent, call.sort_keys)>>
    /\ pc' = "formatted"
    /\ UNCHANGED <<call, heap>>

\* format(parse(t), i, s) for the text t the first pass produced
Reformat ==
    /\ pc = "formatted"
    /\ ~IsErr(result[1])
    /\ result' = Append(result, json_format(PyStr(result[1].result),
                                            call.indent, call.sort_keys))
    /\ pc' = "done"
    /\ UNCHANGED <<call, heap>>

NextFormat == Format \/ Reformat

SpecFormat == InitFormat /\ [][NextFormat]_vars

\* C6 as stated: the text a successful format produced is accepted again and
\* formats to the same text.
FormatIdempotentAsStated ==
    pc = "done" => result[2] = result[1]

\* C6 as amended: when the text a successful format produced has at most
\* MAX_INPUT_SIZE characters, formatting it again gives the same result;
\* when it is longer, formatting it again gives the size error.
FormatIdempotent ==
    pc = "done" =>
        IF Len(result[1].result) <= MAX_INPUT_SIZE
        THEN result[2] = result[1]
        ELSE result[2] = Err(<<"data", "exceeds maximum size">>)

\* A first pass that changed the text (escapes and all), within the size
\* limit, followed by a second pass.
FormatIdempotentWitness ==
    /\ pc = "done"
    /\ result[1].result # call.data.v
    /\ HasChar(result[1].result, BSLASH)
    /\ Len(result[1].result) <= MAX_INPUT_SIZE
    /\ ~IsErr(result[2])

(***************************************************************************)
(* SpecPath: json_transform applied to a document and a path expression.   *)
(***************************************************************************)
KUsers == <<"u", "s", "e", "r", "s">>
KName == <<"n", "a", "m", "e">>
KX == <<"x">>

User(name) == PyDict(<< <<KName, PyStr(name)>> >>)
Ann == User(<<"A", "n", "n">>)
Bo == User(<<"B", "o">>)

PathDocs ==
    { PyDict(<< <<KUsers, PyList(<<Ann, Bo>>)>> >>),
      PyDict(<< <<KUsers, PyList(<<Ann, PyDict(<< <<KX, PyInt(1)>> >>)>>)>> >>),
      PyDict(<< <<KUsers, PyList(<<Ann, PyInt(1), Bo>>)>> >>),
      PyDict(<< <<KUsers, Ann>> >>),
      PyDict(<< <<KUsers, PyList(<<>>)>> >>),
      PyDict(<< <<KA, PyList(<<PyList(<<PyInt(1), PyInt(2)>>), PyList(<<PyInt(3)>>)>>)>>,
                <<KX, PyInt(5)>> >>),
      PyDict(<< <<KA, PyList(<<DictAB(Absent, PyInt(7))>>)>>, <<KB, PyInt(5)>> >>),
      PyDict(<< <<KA, PyDict(<< <<KX, PyInt(1)>> >>)>>, <<KX, PyInt(5)>> >>),
      PyList(<<PyList(<<Ann, Bo>>), PyList(<<Bo>>)>>),
      PyInt(1) }

PathExpressions ==
    { <<"u","s","e","r","s","[","*","]",".","n","a","m","e">>,      \* users[*].name
      <<SP,"u","s","e","r","s","[","*","]",".","n","a","m","e",SP>>,
      <<"u","s","e","r","s","[","*","]">>,                           \* users[*]
      <<"u","s","e","r","s","[","*","]",".","x">>,                   \* users[*].x
      <<"u","s","e","r","s","[","0","]",".","n","a","m","e">>,      \* users[0].name
      <<"u","s","e","r","s","[","5","]",".","n","a","m","e">>,      \* users[5].name
      <<"u","s","e","r","s",".","n","a","m","e">>,                   \* users.name
      <<"u","s","e","r","s","[","*","]","[","*","]">>,               \* users[*][*]
      <<"x">>, <<"a">>,
      <<"a","[","*","]","[","*","]">>,                               \* a[*][*]
      <<"a","[","*","]","[","0","]">>,                               \* a[*][0]
      <<"a","[","*","]","[","1","]">>,                               \* a[*][1]
      <<"a","[","0","]","[","*","]">>,                               \* a[0][*]
      <<"a","[","*","]",".","b">>,                                   \* a[*].b
      <<"a","[","*","]","b">>,                                       \* a[*]b
      <<"a","[","x","]">>,                                           \* a[x]
      <<"[","x","]">>,                                               \* [x]
      <<"a","[","0","]","b">>,                                       \* a[0]b
      <<"a","[","-","1","]">>,                                       \* a[-1]
      <<"a","[","]">>,                                               \* a[]
      <<"a","[","*">>,                                               \* a[*
      <<"a",".",".","x">>,                                           \* a..x
      <<".","x">>, <<"x",".">>,
      <<"[","*","]">>,                                               \* [*]
      <<"[","*","]","[","*","]",".","n","a","m","e">>,              \* [*][*].name
      <<"[","*","]","[","1","]",".","n","a","m","e">>,              \* [*][1].name
      <<"[","0","1","]">>,                                           \* [01]
      <<SP>>, <<>> }

InitPath ==
    /\ pc = "start"
    /\ call \in {[op |-> "transform", data |-> TextOf(d), expression |-> PyStr(e)] :
                    d \in PathDocs, e \in PathExpressions}
    /\ result = <<>>
    /\ heap = <<>>

DoTransform ==
    /\ pc = "start"
    /\ call.op = "transform"
    /\ result' = <<json_transform(call.data, call.expression)>>
    /\ pc' = "done"
    /\ UNCHANGED <<call, heap>>

NextPath == DoTransform

SpecPath == InitPath /\ [][NextPath]_vars

PathRoot == ParseJson(call.data, "data").parsed
PathTokens == Tokens(Strip(call.expression.v))

HasWildcard(tokens) == \E k \in 1..Len(tokens) : IsWildcard(tokens[k])

\* The position of the first Wildcard token
FirstWildcard(tokens) ==
    CHOOSE k \in 1..Len(tokens) :
        IsWildcard(tokens[k]) /\ \A j \in 1..(k - 1) : ~IsWildcard(tokens[j])

\* What the operation answers for an outcome of the path resolution
AnswerOf(r) ==
    IF r.exc = "none"
    THEN [success |-> TRUE, expression |-> call.expression.v,
          result |-> r.val, result_type |-> TypeName(r.val)]
    ELSE Err(StrOfExc(r))

\* C7: when the evaluation reaches the first Wildcard token at a value that
\* is no Array the operation answers "Expected list for [*]"; at an Array it
\* answers the list of the results of the remaining tokens on every element,
\* one per element in the order of the Array, or the failure of the first
\* element the remaining tokens fail on.
WildcardFanOut ==
    (pc = "done" /\ HasWildcard(PathTokens)) =>
        LET w == FirstWildcard(PathTokens)
            before == SubSeq(PathTokens, 1, w - 1)
            after == SubSeq(PathTokens, w + 1, Len(PathTokens))
            here == _walk(PathRoot, before, 0)
            each == [k \in 1..Len(here.val.v) |-> _walk(here.val.v[k], after, 0)]
            failed == {k \in 1..Len(here.val.v) : each[k].exc # "none"}
        IN  here.exc = "none" =>
              IF ~IsList(here.val)
              THEN result[1] = Err(<<"Expected list for [*], got ", TypeName(here.val)>>)
              ELSE IF failed # {}
              THEN result[1] = AnswerOf(each[CHOOSE k \in failed : \A j \in failed : k <= j])
              ELSE /\ ~IsErr(result[1])
                   /\ result[1].result.ty = "list"
                   /\ Len(result[1].result.v) = Len(here.val.v)
                   /\ \A k \in 1..Len(here.val.v) : result[1].result.v[k] = each[k].val

\* users[*].name on the two users Ann and Bo gave ["Ann", "Bo"]
WildcardFanOutWitness ==
    /\ pc = "done"
    /\ PathRoot = PyDict(<< <<KUsers, PyList(<<Ann, Bo>>)>> >>)
    /\ PathTokens = <<KUsers, <<"[", "*", "]">>, KName>>
    /\ ~IsErr(result[1])
    /\ result[1].result = PyList(<<PyStr(<<"A", "n", "n">>), PyStr(<<"B", "o">>)>>)

\* A token that opens with "[" and closes with "]"
IsBracketGroup(token) ==
    Len(token) >= 2 /\ token[1] = "[" /\ token[Len(token)] = "]"

\* The tokens of one dot-separated segment
SegmentTokens(part) == SelectSeq(BracketSplit(part), NonEmpty)

\* _walk looks a token up as an Object key when it is no Wildcard and no Index
IsKeyLookup(token) == ~IsWildcard(token) /\ ~IsIndex(token)

\* C9 as stated: in every dot-separated segment, every bracket group is an
\* Index or a Wildcard token and never an Object key lookup, and no Key token
\* follows a bracket group.
BracketTokensRule ==
    pc = "done" =>
        \A part \in {SplitDot(Strip(call.expression.v))[k] :
                        k \in 1..Len(SplitDot(Strip(call.expression.v)))} :
            LET toks == SegmentTokens(part)
            IN  /\ \A k \in 1..Len(toks) :
                      IsBracketGroup(toks[k]) => ~IsKeyLookup(toks[k])
                /\ \A k \in 2..Len(toks) :
                      IsKeyLookup(toks[k]) => ~IsBracketGroup(toks[k - 1])

(***************************************************************************)
(* SpecOps: one call of one of the five operations, on arguments that are  *)
(* texts of every kind and values that are no text.                        *)
(***************************************************************************)
OpsTexts ==
    { PyStr(<<>>), PyStr(<<SP, NL>>), PyNone, PyInt(0), PyInt(5), PyList(<<PyInt(1)>>),
      PyStr(<<"1">> \o Rep(SP, MAX_INPUT_SIZE)),
      PyStr(Rep("[", MAX_DEPTH + 1) \o Rep("]", MAX_DEPTH + 1)),
      PyStr(<<"{">>),
      TextOf(PyList(<<PyInt(1)>>)),
      TextOf(DictAB(PyInt(1), Absent)),
      TextOf(DictAB(DictAB(Absent, PyList(<<PyInt(1), PyInt(2)>>)), PyInt(2))) }

OpsExpressions ==
    { PyStr(<<>>), PyStr(<<SP>>), PyNone, PyInt(5),
      PyStr(<<"a">>), PyStr(<<"a", ".", "b", "[", "1", "]">>),
      PyStr(<<"a", ".", "b", "[", "5", "]">>), PyStr(<<"a", ".", "b", "[", "*", "]">>),
      PyStr(<<"[", "*", "]">>), PyStr(<<"x">>), PyStr(<<"[", "0", "]", ".", "a">>) }

OpsIndents == {-1, 0, 2, 8, 9}

OpsCalls ==
    {[op |-> "validate", data |-> d, schema |-> t, outcome |-> o] :
        d \in OpsTexts, t \in OpsTexts, o \in ValidatorOutcomes}
    \cup {[op |-> "transform", data |-> d, expression |-> e] :
        d \in OpsTexts, e \in OpsExpressions}
    \cup {[op |-> "merge", base |-> d, override |-> t] : d \in OpsTexts, t \in OpsTexts}
    \cup {[op |-> "diff", first |-> d, second |-> t] : d \in OpsTexts, t \in OpsTexts}
    \cup {[op |-> "format", data |-> d, indent |-> i, sort_keys |-> sk] :
        d \in OpsTexts, i \in OpsIndents, sk \in BOOLEAN}

InitOps ==
    /\ pc = "start"
    /\ call \in OpsCalls
    /\ result = <<>>
    /\ heap = <<>>

DoValidate ==
    /\ pc = "start"
    /\ call.op = "validate"
    /\ result' = <<json_validate(call.data, call.schema, call.outcome)>>
    /\ pc' = "done"
    /\ UNCHANGED <<call, heap>>

NextOps == DoValidate \/ DoTransform \/ DoMerge \/ DoDiff \/ Format

SpecOps == InitOps /\ [][NextOps]_vars

\* The fields of an operation's success payload
SuccessFields(op) ==
    CASE op = "validate" -> {"valid", "errors", "error_count"}
      [] op = "transform" -> {"success", "expression", "result", "result_type"}
      [] op = "merge" -> {"success", "result"}
      [] op = "diff" -> {"equal", "differences", "difference_count"}
      [] op = "format" -> {"success", "result", "minified"}

\* A text argument _parse_json gives no value for: empty, oversized, too deep,
\* malformed, or no text at all
BadText(raw) ==
    LET p == ParseJson(raw, "x")
    IN  p.exc # "none" \/ IsErr(p.err)

ParsedOf(raw) == ParseJson(raw, "x").parsed

\* The failures the operations answer with an error
OpFails ==
    CASE call.op = "validate" ->
            \/ BadText(call.data) \/ BadText(call.schema)
            \/ ~IsDict(ParsedOf(call.schema))
            \/ call.outcome \in {"not_installed", "raises"}
      [] call.op = "transform" ->
            \/ BadText(call.data)
            \/ ~Truthy(call.expression)
            \/ call.expression.ty # "str"
            \/ Strip(call.expression.v) = <<>>
            \/ _resolve_path(ParsedOf(call.data), Strip(call.expression.v)).exc # "none"
      [] call.op = "merge" ->
            \/ BadText(call.base) \/ BadText(call.override)
            \/ ~IsDict(ParsedOf(call.base)) \/ ~IsDict(ParsedOf(call.override))
      [] call.op = "diff" -> BadText(call.first) \/ BadText(call.second)
      [] call.op = "format" ->
            BadText(call.data) \/ call.indent < 0 \/ call.indent > 8

\* C8: every operation returns a record and raises nothing; on a failure the
\* record has the field error alone, on success it has the fields of the
\* operation's payload and no field error.
OpsNeverRaise ==
    pc # "start" =>
        /\ "raised" \notin DOMAIN result[1]
        /\ IF OpFails
           THEN DOMAIN result[1] = {"error"}
           ELSE DOMAIN result[1] = SuccessFields(call.op)

\* An exception no operation expects (strip on a value that is no text) came
\* back as the record {error: "Merge failed: ..."}.
OpsNeverRaiseWitness ==
    /\ pc = "done"
    /\ call.op = "merge"
    /\ ParseJson(call.base, "base").exc = "AttributeError"
    /\ DOMAIN result[1] = {"error"}
    /\ result[1].error[1] = "Merge"

(***************************************************************************)
(* SpecHeap: _deep_merge, _diff and _walk on trees that live in a heap.    *)
(*                                                                         *)
(* The heap is a sequence of cells; the address of a cell is its index.    *)
(* A dict cell holds items <<key, value>> and a list cell holds values,    *)
(* a value being a scalar or a reference to a cell, as a Python dict or    *)
(* list holds references to the objects in it.  base and override (first   *)
(* and second, the root of a path) are references into the heap the call   *)
(* starts with; some of their cells are shared.                            *)
(***************************************************************************)
Ref(a) == [ty |-> "ref", v |-> a]
IsRef(x) == x.ty = "ref"

\* isinstance(x, dict), isinstance(x, list) for a value of the heap h
IsDictIn(h, x) == IsRef(x) /\ h[x.v].ty = "dict"
IsListIn(h, x) == IsRef(x) /\ h[x.v].ty = "list"

\* A new object: the heap with the cell at a fresh address, and its reference
Alloc(h, cell) == [heap |-> Append(h, cell), ref |-> Ref(Len(h) + 1)]

\* merged = base: no new dict, merged is base itself (a mutant)
CopyDictAlias(h, base) == [heap |-> h, ref |-> base]

\* merged = dict(base): a new dict holding the items of base
CopyDict(h, base) == Alloc(h, h[base.v])

\* merged[key] = val
StoreItem(h, d, key, val) == [h EXCEPT ![d.v] = DictSet(h[d.v], key, val)]

\* del d[key]
DeleteItem(h, d, key) == [h EXCEPT ![d.v] = DictDel(h[d.v], key)]

\* _deep_merge on the heap: the heap after the call and the value returned
RECURSIVE HeapDeepMerge(_, _, _)
RECURSIVE HeapMergeItems(_, _, _, _)
HeapMergeItems(h, merged, items, k) ==
    IF k > Len(items) THEN [heap |-> h, ref |-> merged]
    ELSE LET key == items[k][1]
             value == items[k][2]
         IN  IF HasKey(h[merged.v], key)
             THEN LET sub == HeapDeepMerge(h, Get(h[merged.v], key), value)
                  IN  HeapMergeItems(StoreItem(sub.heap, merged, key, sub.ref),
                                     merged, items, k + 1)
             ELSE HeapMergeItems(StoreItem(h, merged, key, value), merged, items, k + 1)

HeapDeepMerge(h, base, override) ==
    IF IsDictIn(h, base) /\ IsDictIn(h, override)
    THEN LET c == CopyDict(h, base)
         IN  HeapMergeItems(c.heap, c.ref, h[override.v].v, 1)
    ELSE [heap |-> h, ref |-> override]

\* The tree a value of the heap h stands for
RECURSIVE TreeOf(_, _)
TreeOf(h, x) ==
    IF ~IsRef(x) THEN x
    ELSE IF h[x.v].ty = "list"
    THEN PyList([k \in 1..Len(h[x.v].v) |-> TreeOf(h, h[x.v].v[k])])
    ELSE PyDict([k \in 1..Len(h[x.v].v) |->
                    <<h[x.v].v[k][1], TreeOf(h, h[x.v].v[k][2])>>])

\* _walk on the heap: a key or an index gives the value held, a wildcard
\* builds a new list of the values the rest of the tokens give
RECURSIVE HeapWalk(_, _, _, _)
RECURSIVE HeapWalkEach(_, _, _, _, _, _)
HeapWalkEach(h, items, tokens, idx, k, acc) ==
    IF k > Len(items)
    THEN LET n == Alloc(h, PyList(acc))
         IN  [heap |-> n.heap, ref |-> n.ref, exc |-> "none"]
    ELSE LET r == HeapWalk(h, items[k], tokens, idx + 1)
         IN  IF r.exc # "none" THEN r
             ELSE HeapWalkEach(r.heap, items, tokens, idx, k + 1, Append(acc, r.ref))

HeapWalk(h, current, tokens, idx) ==
    IF idx >= Len(tokens) THEN [heap |-> h, ref |-> current, exc |-> "none"]
    ELSE LET token == tokens[idx + 1]
             failed(exc) == [heap |-> h, ref |-> PyNone, exc |-> exc]
         IN  IF IsWildcard(token)
             THEN IF ~IsListIn(h, current) THEN failed("TypeError")
                  ELSE HeapWalkEach(h, h[current.v].v, tokens, idx, 1, <<>>)
             ELSE IF IsIndex(token)
             THEN IF ~IsListIn(h, current) THEN failed("TypeError")
                  ELSE IF IndexOf(token) >= Len(h[current.v].v) THEN failed("IndexError")
                  ELSE HeapWalk(h, h[current.v].v[IndexOf(token) + 1], tokens, idx + 1)
             ELSE IF ~IsDictIn(h, current) THEN failed("TypeError")
             ELSE IF ~HasKey(h[current.v], token) THEN failed("KeyError")
             ELSE HeapWalk(h, Get(h[current.v], token), tokens, idx + 1)

\* The cells every heap starts with below the two roots
HeapShared ==
    << PyDict(<< <<KA, Ref(4)>>, <<KB, PyInt(1)>> >>),          \* 3
       PyDict(<< <<KA, Ref(6)>>, <<KB, Ref(5)>> >>),            \* 4
       PyList(<<PyInt(1), Ref(6)>>),                            \* 5
       PyDict(<< <<KB, PyInt(3)>> >>) >>                        \* 6

HeapRoots ==
    {DictAB(va, vb) : va \in {Absent, PyInt(1), Ref(3), Ref(4)},
                      vb \in {Absent, PyInt(2), Ref(5)}}

HeapInputs == {<<r1, r2>> \o HeapShared : r1 \in HeapRoots, r2 \in HeapRoots}

HeapTokens ==
    { <<KA>>, <<KA, KA, KB>>, <<KB, <<"[", "*", "]">>>>, <<KB, <<"[", "1", "]">>, KB>>,
      <<KB, <<"[", "*", "]">>, KB>>, <<KA, KB, <<"[", "*", "]">>>> }

NewValue == PyInt(9)

InitHeap ==
    /\ pc = "start"
    /\ heap \in HeapInputs
    /\ call \in {[op |-> o, heap0 |-> heap, tokens |-> t] :
                    o \in {"merge", "diff", "walk"}, t \in HeapTokens}
    /\ (call.op # "walk" => call.tokens = <<KA>>)
    /\ result = <<>>

\* merged = _deep_merge(base, override), base at address 1, override at 2
HeapMerge ==
    /\ pc = "start"
    /\ call.op = "merge"
    /\ LET m == HeapDeepMerge(heap, Ref(1), Ref(2))
       IN  /\ heap' = m.heap
           /\ result' = <<m.ref, FALSE>>
    /\ pc' = "merged"
    /\ UNCHANGED call

\* A later change through a dict the merge built: merged[key] = NewValue or
\* del merged[key]
MutateResult ==
    /\ pc = "merged"
    /\ \E a \in (Len(call.heap0) + 1)..Len(heap), key \in {KA, KB} :
          \/ heap' = StoreItem(heap, Ref(a), key, NewValue)
          \/ /\ HasKey(heap[a], key)
             /\ heap' = DeleteItem(heap, Ref(a), key)
    /\ result' = <<result[1], TRUE>>
    /\ UNCHANGED <<pc, call>>

\* _diff(first, second): the function reads its two trees and stores into
\* neither, the records it builds hold what it read
HeapDiff ==
    /\ pc = "start"
    /\ call.op = "diff"
    /\ result' = <<_diff(TreeOf(heap, Ref(1)), TreeOf(heap, Ref(2)), <<>>)>>
    /\ pc' = "done"
    /\ UNCHANGED <<call, heap>>

\* _walk(root, tokens, 0), root at address 1
HeapResolve ==
    /\ pc = "start"
    /\ call.op = "walk"
    /\ LET r == HeapWalk(heap, Ref(1), call.tokens, 0)
       IN  /\ heap' = r.heap
           /\ result' = <<r>>
    /\ pc' = "done"
    /\ UNCHANGED call

NextHeap == HeapMerge \/ MutateResult \/ HeapDiff \/ HeapResolve

SpecHeap == InitHeap /\ [][NextHeap]_vars

\* C10: after merge, diff or path resolution, and after any later change
\* through the dicts the merge built, every cell of the input trees holds
\* what it held before the call, so both input trees are what they were.
InputsIntact ==
    /\ SubSeq(heap, 1, Len(call.heap0)) = call.heap0
    /\ \A a \in {1, 2} : TreeOf(heap, Ref(a)) = TreeOf(call.heap0, Ref(a))

\* A merge that built three dicts (the root, key a, and key a under it), one
\* of them changed afterwards.
InputsIntactWitness ==
    /\ pc = "merged"
    /\ result[2]
    /\ Len(heap) >= Len(call.heap0) + 3
    /\ TreeOf(heap, result[1]) # TreeOf(HeapDeepMerge(call.heap0, Ref(1), Ref(2)).heap,
                                        result[1])

====
